---- MODULE Spec2Model ----
(***************************************************************************)
(* A model of reparselib.cpp: the five public operations of the library    *)
(* (ReparsePointExists, GetReparseGUID, GetReparseTag, DeleteReparsePoint, *)
(* CreateCustomReparsePoint) as sequences of system calls against a file   *)
(* system that keeps, per path, the attribute word and the reparse point.  *)
(* Every system call of the source is one step of the calling thread; a    *)
(* call that fails where the source does not expect it (GlobalAlloc        *)
(* returning NULL) or that damages the heap ends the process where the     *)
(* damage is hit.                                                          *)
(***************************************************************************)
EXTENDS Integers, Sequences, FiniteSets, TLC

VARIABLES
  fs,      \* the file system: per path, existence, directory-ness, reparse point
  outer,   \* per thread: the frame of DeleteReparsePoint / CreateCustomReparsePoint
  q,       \* per thread: the frame of GetReparseGUID / GetReparseTag (top level or nested)
  res,     \* per thread: the handles and heap buffers the thread currently owns
  log,     \* per thread: what the current (or last) public call did and returned
  hist,    \* per path: the last public call that changed its reparse point
  ncalls,  \* per thread: number of public calls started
  live     \* the threads that run

vars == <<fs, outer, q, res, log, hist, ncalls, live>>

----------------------------------------------------------------------------
(* Bounds of the model *)

\* public calls one thread makes
MaxCalls == 2

(* Program constants (Windows SDK values of the names the source uses) *)


\* A 32-bit attribute word is the set of the positions of its 1 bits
\* 0x00000010
FILE_ATTRIBUTE_DIRECTORY == {4}
\* 0x00000020
FILE_ATTRIBUTE_ARCHIVE == {5}
\* 0x00000400
FILE_ATTRIBUTE_REPARSE_POINT == {10}
\* 0xFFFFFFFF
INVALID_FILE_ATTRIBUTES == 0 .. 31
MAXIMUM_REPARSE_DATA_BUFFER_SIZE == 16384
REPARSE_GUID_DATA_BUFFER_HEADER_SIZE == 24
\* the width of the WORD field ReparseDataLength
WordModulus == 65536
\* GUID_NULL, and the content of memory GlobalAlloc(GPTR, ..) returns
GUID_NULL == 0

Threads == {1, 2}
Paths == {"P", "Q", "R"}
\* the (GUID, tag) pairs callers create reparse points with: GUIDs are small
\* numbers, GUID_NULL the all-zero one; the tags are vendor (custom) tags
Idents == {[guid |-> 1, tag |-> 256], [guid |-> GUID_NULL, tag |-> 512]}
\* IO_REPARSE_TAG_MOUNT_POINT, 0xA0000003, a system tag: tags are 32-bit
\* words written as signed numbers, so bit 31 is the sign
IO_REPARSE_TAG_MOUNT_POINT == -1610612733
\* the largest payload that fits behind the GUID-inclusive header
MaxPayload == MAXIMUM_REPARSE_DATA_BUFFER_SIZE - REPARSE_GUID_DATA_BUFFER_HEADER_SIZE
\* the caller's payloads: `size` bytes, all equal to `fill`; the lengths are
\* empty, small, the largest that fits behind the header, one more, the
\* largest the validation lets through, one more
Payloads ==
  {[size |-> 0, fill |-> 170], [size |-> 3, fill |-> 170], [size |-> 3, fill |-> 187],
   [size |-> MaxPayload, fill |-> 170], [size |-> MaxPayload + 1, fill |-> 170],
   [size |-> MAXIMUM_REPARSE_DATA_BUFFER_SIZE, fill |-> 170],
   [size |-> MAXIMUM_REPARSE_DATA_BUFFER_SIZE + 1, fill |-> 170]}

\* the value of a variable nobody has written yet (an uninitialised local,
\* or the caller's output variable before the call)
Unset == -1

\* BOOL values
FALSE_ == 0
TRUE_ == 1

NoPoint == [tag |-> 0, guid |-> GUID_NULL, len |-> 0, size |-> 0, fill |-> 0]
NoBuf == [cap |-> 0, tag |-> 0, len |-> 0, reserved |-> 0, guid |-> GUID_NULL,
          size |-> 0, fill |-> 0]

----------------------------------------------------------------------------
(* Pure helpers *)

\* a & b on attribute words
BitAnd(a, b) == a \cap b

\* GetFileAttributes(sFileName): the attribute word, or the all-ones
\* INVALID_FILE_ATTRIBUTES when the path cannot be queried
GetFileAttributes(f, p) ==
  IF ~f[p].exists THEN INVALID_FILE_ATTRIBUTES
  ELSE (IF f[p].dir THEN FILE_ATTRIBUTE_DIRECTORY ELSE FILE_ATTRIBUTE_ARCHIVE)
       \cup (IF f[p].has THEN FILE_ATTRIBUTE_REPARSE_POINT ELSE {})

\* a masked word taken as a condition
NonZero(w) == w # {}

\* the number a word (with bit 31 clear) is, as a BOOL return value
RECURSIVE WordValue(_)
WordValue(w) ==
  IF w = {} THEN 0
  ELSE LET i == CHOOSE x \in w : TRUE IN 2 ^ i + WordValue(w \ {i})

\* IsReparseTagMicrosoft: bit 31 of the tag
IsReparseTagMicrosoft(tag) == tag < 0

----------------------------------------------------------------------------
(* The collaborators: CreateFile and the three control requests *)

\* CreateFile(.., OPEN_EXISTING, ..) can succeed only on a path that exists;
\* `ok` is the environment's verdict (rights, sharing)
CreateFileOk(f, p, ok) == f[p].exists /\ ok

\* FSCTL_GET_REPARSE_POINT succeeds only while the path carries a reparse point
GetAccepted(f, p, ok) == f[p].has /\ ok

\* FSCTL_DELETE_REPARSE_POINT: the driver rejects a request whose tag differs
\* from the stored tag, whose data length is not zero, or (vendor tags) whose
\* GUID differs from the stored GUID
DeleteAccepted(f, p, buf, ok) ==
  /\ ok
  /\ f[p].has
  /\ buf.tag = f[p].rp.tag
  /\ buf.len = 0
  /\ (IsReparseTagMicrosoft(buf.tag) \/ buf.guid = f[p].rp.guid)

\* the reparse point a SET request stores: the header fields and the payload
\* of the buffer
PointOf(buf) ==
  [tag |-> buf.tag, guid |-> buf.guid, len |-> buf.len,
   size |-> buf.size, fill |-> buf.fill]

\* the buffer a GET request returns
BufOf(cap, rp) ==
  [cap |-> cap, tag |-> rp.tag, len |-> rp.len, reserved |-> 0, guid |-> rp.guid,
   size |-> rp.size, fill |-> rp.fill]

\* GlobalAlloc(GPTR, cap): zero-initialised memory when the heap has room
\* (got), else NULL, which NoBuf stands for
GlobalAlloc(cap, got) == IF got THEN [NoBuf EXCEPT !.cap = cap] ELSE NoBuf

----------------------------------------------------------------------------
(* Frames and the per-call record *)

IdleOuter ==
  [fn |-> "none", pc |-> "idle", path |-> "P", rd |-> NoBuf, gu |-> Unset,
   guOk |-> FALSE_, dwReparseTag |-> Unset, tagOk |-> FALSE_, bResult |-> FALSE_,
   pBufferNull |-> FALSE, uBufSize |-> 0, fill |-> 0, uGuid |-> GUID_NULL,
   uReparseTag |-> 0, hHandle |-> "invalid", bBackup |-> {}]

IdleQ ==
  [fn |-> "none", pc |-> "idle", path |-> "P", pNull |-> FALSE, bBackup |-> {},
   rd |-> NoBuf, bResult |-> FALSE_, pOut |-> Unset, hSrc |-> "invalid"]

NoRes == [handles |-> 0, buffers |-> 0]

NoArgs == [isNull |-> FALSE, size |-> 0, fill |-> 0, guid |-> GUID_NULL, tag |-> 0]

NoLog(f) ==
  [fn |-> "none", path |-> "P", args |-> NoArgs, done |-> TRUE, result |-> Unset,
   out |-> Unset, opens |-> <<>>, reqs |-> <<>>, ev |-> <<>>, fs0 |-> f,
   res0 |-> NoRes, overflow |-> FALSE, refused |-> FALSE]

\* the last call that changed the reparse point of a path, as its caller saw it
NoHist == [op |-> "none", args |-> NoArgs, prior |-> FALSE]

\* the environment said no to something it could have granted
Refused(could, ok) == could /\ ~ok

\* one CreateFile call
OpenEntry(access, bBackup, ok) ==
  [access |-> access, backup |-> NonZero(bBackup), ok |-> ok]

\* one DeviceIoControl call: the request, the rights of the handle it is sent
\* on, the buffer passed in (capacity, header, payload), the byte count and
\* the outcome
ReqEntry(kind, access, buf, count, ok) ==
  [kind |-> kind, access |-> access, cap |-> buf.cap, tag |-> buf.tag,
   len |-> buf.len, reserved |-> buf.reserved, guid |-> buf.guid,
   size |-> buf.size, fill |-> buf.fill, count |-> count, ok |-> ok]

\* the call record with one more step noted: the function that took it and
\* what it was
Ev(lg, by, what) == [lg EXCEPT !.ev = Append(@, [by |-> by, what |-> what])]

\* OpenFileForRead asking for GENERIC_WRITE
OpenFileForReadAsWrite(f, p, bBackup, ok) ==
  OpenEntry("write", bBackup, CreateFileOk(f, p, ok))

\* OpenFileForRead(sFileName, bBackup): CreateFile with GENERIC_READ
OpenFileForRead(f, p, bBackup, ok) ==
  OpenEntry("read", bBackup, CreateFileOk(f, p, ok))

\* OpenFileForWrite(sFileName, bBackup): CreateFile with GENERIC_WRITE
OpenFileForWrite(f, p, bBackup, ok) ==
  OpenEntry("write", bBackup, CreateFileOk(f, p, ok))

Idle(t) == outer[t].fn = "none" /\ q[t].fn = "none"

----------------------------------------------------------------------------
(* The initial state: P is a directory carrying a reparse point (a vendor   *)
(* one, or a mount point), Q is a plain file, R does not exist.             *)

\* the mount point is a system-layout buffer: what a GET shows at the GUID
\* offset is payload bytes (7 here), not a GUID
InitPoints ==
  {[tag |-> 256, guid |-> 1, len |-> 3, size |-> 3, fill |-> 170],
   [tag |-> IO_REPARSE_TAG_MOUNT_POINT, guid |-> 7, len |-> 3,
    size |-> 3, fill |-> 170]}

InitFs(rp) ==
  [p \in Paths |->
     CASE p = "P" -> [exists |-> TRUE, dir |-> TRUE, has |-> TRUE, rp |-> rp]
       [] p = "Q" -> [exists |-> TRUE, dir |-> FALSE, has |-> FALSE, rp |-> NoPoint]
       [] OTHER -> [exists |-> FALSE, dir |-> FALSE, has |-> FALSE, rp |-> NoPoint]]

InitWith(L) ==
  /\ \E rp \in InitPoints : fs = InitFs(rp)
  /\ outer = [t \in Threads |-> IdleOuter]
  /\ q = [t \in Threads |-> IdleQ]
  /\ res = [t \in Threads |-> NoRes]
  /\ log = [t \in Threads |-> NoLog(fs)]
  /\ hist = [p \in Paths |-> NoHist]
  /\ ncalls = [t \in Threads |-> 0]
  /\ live = L

Init == InitWith({1})

----------------------------------------------------------------------------
(* ReparsePointExists *)

\* the BOOL the function returns: the masked attribute word
ReparsePointExists(f, p) ==
  BitAnd(GetFileAttributes(f, p), FILE_ATTRIBUTE_REPARSE_POINT)

\* the bBackup argument of the open helpers
IsDirectoryArg(f, p) ==
  BitAnd(GetFileAttributes(f, p), FILE_ATTRIBUTE_DIRECTORY)

NewLog(t, fn, p, args) ==
  [NoLog(fs) EXCEPT !.fn = fn, !.path = p, !.args = args, !.done = FALSE,
                    !.res0 = res[t]]

\* a public function returns r to the caller
Return(t, lg, r) ==
  /\ outer' = [outer EXCEPT ![t] = IdleOuter]
  /\ log' = [log EXCEPT ![t] = [lg EXCEPT !.done = TRUE, !.result = r]]

CallExists(t, p) ==
  /\ t \in live /\ Idle(t) /\ ncalls[t] < MaxCalls
  /\ ncalls' = [ncalls EXCEPT ![t] = @ + 1]
  /\ outer' = [outer EXCEPT ![t] =
                 [IdleOuter EXCEPT !.fn = "ReparsePointExists", !.pc = "x_attr",
                                   !.path = p]]
  /\ log' = [log EXCEPT ![t] = NewLog(t, "ReparsePointExists", p, NoArgs)]
  /\ UNCHANGED <<fs, q, res, hist, live>>

XExists(t) ==
  /\ t \in live /\ outer[t].pc = "x_attr"
  /\ Return(t, Ev(log[t], "ReparsePointExists", "exists"),
            WordValue(ReparsePointExists(fs, outer[t].path)))
  /\ UNCHANGED <<fs, q, res, hist, ncalls, live>>

----------------------------------------------------------------------------
(* GetReparseGUID and GetReparseTag *)

\* the query returns r, having left v in the caller's output variable: to
\* DeleteReparsePoint when it made the call, else to the library's caller
QReturn(t, lg, r, v) ==
  /\ q' = [q EXCEPT ![t] = IdleQ]
  /\ IF outer[t].fn = "DeleteReparsePoint"
     THEN /\ outer' = [outer EXCEPT ![t] =
                IF q[t].fn = "GetReparseGUID"
                THEN [@ EXCEPT !.guOk = r, !.gu = v, !.pc = "d_alloc"]
                ELSE [@ EXCEPT !.tagOk = r, !.dwReparseTag = v, !.pc = "d_tagged"]]
          /\ log' = [log EXCEPT ![t] = lg]
     ELSE /\ outer' = outer
          /\ log' = [log EXCEPT ![t] =
                       [lg EXCEPT !.done = TRUE, !.result = r, !.out = v]]

CallQuery(t, fn, p, pNull) ==
  /\ t \in live /\ Idle(t) /\ ncalls[t] < MaxCalls
  /\ ncalls' = [ncalls EXCEPT ![t] = @ + 1]
  /\ q' = [q EXCEPT ![t] =
             [IdleQ EXCEPT !.fn = fn, !.pc = "q_check", !.path = p, !.pNull = pNull]]
  /\ log' = [log EXCEPT ![t] = NewLog(t, fn, p, [NoArgs EXCEPT !.isNull = pNull])]
  /\ UNCHANGED <<fs, outer, res, hist, live>>

\* QCheck without the existence check
QCheckNoGuard(t) ==
  /\ t \in live /\ q[t].pc = "q_check"
  /\ IF q[t].pNull
     THEN QReturn(t, log[t], FALSE_, q[t].pOut)
     ELSE /\ q' = [q EXCEPT ![t].pc = "q_attr"]
          /\ UNCHANGED <<outer, log>>
  /\ UNCHANGED <<fs, res, hist, ncalls, live>>

\* NULL == pGuid, then !ReparsePointExists(sFileName)
QCheck(t) ==
  /\ t \in live /\ q[t].pc = "q_check"
  /\ IF q[t].pNull
     THEN QReturn(t, log[t], FALSE_, q[t].pOut)
     ELSE IF ~NonZero(ReparsePointExists(fs, q[t].path))
     THEN QReturn(t, Ev(log[t], q[t].fn, "exists"), FALSE_, q[t].pOut)
     ELSE /\ q' = [q EXCEPT ![t].pc = "q_attr"]
          /\ log' = [log EXCEPT ![t] = Ev(@, q[t].fn, "exists")]
          /\ UNCHANGED outer
  /\ UNCHANGED <<fs, res, hist, ncalls, live>>

\* GetFileAttributes(sFileName) & FILE_ATTRIBUTE_DIRECTORY, the argument of
\* OpenFileForRead, evaluated before the call
QAttr(t) ==
  /\ t \in live /\ q[t].pc = "q_attr"
  /\ q' = [q EXCEPT ![t].pc = "q_open",
                    ![t].bBackup = IsDirectoryArg(fs, q[t].path)]
  /\ log' = [log EXCEPT ![t] = Ev(@, q[t].fn, "attrs")]
  /\ UNCHANGED <<fs, outer, res, hist, ncalls, live>>

\* hSrc = OpenFileForRead(sFileName, bBackup): the CreateFile call
QOpen(t) ==
  /\ t \in live /\ q[t].pc = "q_open"
  /\ \E ok \in BOOLEAN :
       LET p == q[t].path
           bBackup == q[t].bBackup
           h == OpenFileForRead(fs, p, bBackup, ok)
           opened == h.ok
           lg == [Ev(log[t], q[t].fn, "open") EXCEPT
                    !.opens = Append(@, h),
                    !.refused = @ \/ Refused(fs[p].exists, ok)]
       IN IF opened
          THEN /\ q' = [q EXCEPT ![t].pc = "q_alloc", ![t].hSrc = h.access]
               /\ res' = [res EXCEPT ![t].handles = @ + 1]
               /\ log' = [log EXCEPT ![t] = lg]
               /\ UNCHANGED outer
          ELSE /\ QReturn(t, lg, q[t].bResult, q[t].pOut)
               /\ UNCHANGED res
  /\ UNCHANGED <<fs, hist, ncalls, live>>

\* rd = GlobalAlloc(GPTR, MAXIMUM_REPARSE_DATA_BUFFER_SIZE); the result is
\* not tested
QAlloc(t) ==
  /\ t \in live /\ q[t].pc = "q_alloc"
  /\ \E got \in BOOLEAN :
       /\ q' = [q EXCEPT ![t].pc = "q_ioctl",
                         ![t].rd = GlobalAlloc(MAXIMUM_REPARSE_DATA_BUFFER_SIZE, got)]
       /\ res' = [res EXCEPT ![t].buffers = IF got THEN @ + 1 ELSE @]
       /\ log' = [log EXCEPT ![t] =
                    [Ev(@, q[t].fn, "alloc") EXCEPT !.refused = @ \/ ~got]]
  /\ UNCHANGED <<fs, outer, hist, ncalls, live>>

\* QIoctl copying the field out whatever DeviceIoControl returned
QIoctlAlwaysWrite(t) ==
  /\ t \in live /\ q[t].pc = "q_ioctl"
  /\ \E ok \in BOOLEAN :
       LET p == q[t].path
           accepted == q[t].rd # NoBuf /\ GetAccepted(fs, p, ok)
           got == BufOf(q[t].rd.cap, fs[p].rp)
           lg == [Ev(log[t], q[t].fn, "GET") EXCEPT
                    !.reqs = Append(@, ReqEntry("GET", q[t].hSrc, NoBuf, 0, accepted)),
                    !.refused = @ \/ Refused(fs[p].has, ok)]
       IN /\ q' = [q EXCEPT ![t] =
                     [@ EXCEPT !.pc = "q_close", !.rd = got,
                               !.bResult = IF accepted THEN TRUE_ ELSE @,
                               !.pOut = IF q[t].fn = "GetReparseGUID"
                                        THEN got.guid ELSE got.tag]]
          /\ log' = [log EXCEPT ![t] = lg]
  /\ UNCHANGED <<fs, outer, res, hist, ncalls, live>>

\* DeviceIoControl(hSrc, FSCTL_GET_REPARSE_POINT, NULL, 0, rd, ..), which
\* fails when rd is NULL; on success the field of the returned buffer goes
\* to the output variable
QIoctl(t) ==
  /\ t \in live /\ q[t].pc = "q_ioctl"
  /\ \E ok \in BOOLEAN :
       LET p == q[t].path
           accepted == q[t].rd # NoBuf /\ GetAccepted(fs, p, ok)
           got == BufOf(q[t].rd.cap, fs[p].rp)
           lg == [Ev(log[t], q[t].fn, "GET") EXCEPT
                    !.reqs = Append(@, ReqEntry("GET", q[t].hSrc, NoBuf, 0, accepted)),
                    !.refused = @ \/ Refused(fs[p].has, ok)]
       IN /\ q' = [q EXCEPT ![t] =
                     IF accepted
                     THEN [@ EXCEPT !.pc = "q_close", !.rd = got, !.bResult = TRUE_,
                                    !.pOut = IF q[t].fn = "GetReparseGUID"
                                             THEN got.guid ELSE got.tag]
                     ELSE [@ EXCEPT !.pc = "q_close"]]
          /\ log' = [log EXCEPT ![t] = lg]
  /\ UNCHANGED <<fs, outer, res, hist, ncalls, live>>

\* QClose leaving the handle open
QCloseSkip(t) ==
  /\ t \in live /\ q[t].pc = "q_close"
  /\ q' = [q EXCEPT ![t].pc = "q_free"]
  /\ log' = [log EXCEPT ![t] = Ev(@, q[t].fn, "close")]
  /\ UNCHANGED <<fs, outer, res, hist, ncalls, live>>

\* CloseHandle(hSrc)
QClose(t) ==
  /\ t \in live /\ q[t].pc = "q_close"
  /\ q' = [q EXCEPT ![t].pc = "q_free"]
  /\ res' = [res EXCEPT ![t].handles = @ - 1]
  /\ log' = [log EXCEPT ![t] = Ev(@, q[t].fn, "close")]
  /\ UNCHANGED <<fs, outer, hist, ncalls, live>>

\* GlobalFree(rd), which does nothing for NULL; return bResult
QFree(t) ==
  /\ t \in live /\ q[t].pc = "q_free"
  /\ res' = [res EXCEPT ![t].buffers = IF q[t].rd = NoBuf THEN @ ELSE @ - 1]
  /\ QReturn(t, Ev(log[t], q[t].fn, "free"), q[t].bResult, q[t].pOut)
  /\ UNCHANGED <<fs, hist, ncalls, live>>

----------------------------------------------------------------------------
(* DeleteReparsePoint *)

\* the file system once the driver has removed the reparse point of p
Removed(f, p) == [f EXCEPT ![p].has = FALSE, ![p].rp = NoPoint]

CallDelete(t, p) ==
  /\ t \in live /\ Idle(t) /\ ncalls[t] < MaxCalls
  /\ ncalls' = [ncalls EXCEPT ![t] = @ + 1]
  /\ outer' = [outer EXCEPT ![t] =
                 [IdleOuter EXCEPT !.fn = "DeleteReparsePoint", !.pc = "d_exists",
                                   !.path = p]]
  /\ log' = [log EXCEPT ![t] = NewLog(t, "DeleteReparsePoint", p, NoArgs)]
  /\ UNCHANGED <<fs, q, res, hist, live>>

\* !ReparsePointExists(sFileName) || !GetReparseGUID(sFileName, &gu): the
\* existence check, then the call of GetReparseGUID
DExists(t) ==
  /\ t \in live /\ outer[t].pc = "d_exists"
  /\ IF ~NonZero(ReparsePointExists(fs, outer[t].path))
     THEN /\ Return(t, Ev(log[t], "DeleteReparsePoint", "exists"), FALSE_)
          /\ UNCHANGED q
     ELSE /\ outer' = [outer EXCEPT ![t].pc = "d_wait_guid"]
          /\ q' = [q EXCEPT ![t] =
                     [IdleQ EXCEPT !.fn = "GetReparseGUID", !.pc = "q_check",
                                   !.path = outer[t].path, !.pOut = outer[t].gu]]
          /\ log' = [log EXCEPT ![t] =
                       Ev(Ev(@, "DeleteReparsePoint", "exists"),
                          "DeleteReparsePoint", "call GetReparseGUID")]
  /\ UNCHANGED <<fs, res, hist, ncalls, live>>

\* DAlloc going on to the tag query whatever GetReparseGUID returned
DAllocNoCheck(t) ==
  /\ t \in live /\ outer[t].pc = "d_alloc"
  /\ \E got \in BOOLEAN :
       /\ outer' = [outer EXCEPT ![t].pc = "d_wait_tag",
                      ![t].rd = GlobalAlloc(REPARSE_GUID_DATA_BUFFER_HEADER_SIZE, got)]
       /\ res' = [res EXCEPT ![t].buffers = IF got THEN @ + 1 ELSE @]
       /\ log' = [log EXCEPT ![t] =
                    [Ev(Ev(@, "DeleteReparsePoint", "alloc"),
                        "DeleteReparsePoint", "call GetReparseTag")
                       EXCEPT !.refused = @ \/ ~got]]
  /\ q' = [q EXCEPT ![t] =
             [IdleQ EXCEPT !.fn = "GetReparseTag", !.pc = "q_check",
                           !.path = outer[t].path,
                           !.pOut = outer[t].dwReparseTag]]
  /\ UNCHANGED <<fs, hist, ncalls, live>>

\* GetReparseGUID failed: return FALSE. Else rd = GlobalAlloc(GPTR,
\* REPARSE_GUID_DATA_BUFFER_HEADER_SIZE), not tested, and the call of
\* GetReparseTag
DAlloc(t) ==
  /\ t \in live /\ outer[t].pc = "d_alloc"
  /\ IF outer[t].guOk = 0
     THEN /\ Return(t, log[t], FALSE_)
          /\ UNCHANGED <<q, res>>
     ELSE /\ \E got \in BOOLEAN :
               /\ outer' = [outer EXCEPT ![t].pc = "d_wait_tag",
                              ![t].rd = GlobalAlloc(REPARSE_GUID_DATA_BUFFER_HEADER_SIZE,
                                                    got)]
               /\ res' = [res EXCEPT ![t].buffers = IF got THEN @ + 1 ELSE @]
               /\ log' = [log EXCEPT ![t] =
                            [Ev(Ev(@, "DeleteReparsePoint", "alloc"),
                                "DeleteReparsePoint", "call GetReparseTag")
                               EXCEPT !.refused = @ \/ ~got]]
          /\ q' = [q EXCEPT ![t] =
                     [IdleQ EXCEPT !.fn = "GetReparseTag", !.pc = "q_check",
                                   !.path = outer[t].path,
                                   !.pOut = outer[t].dwReparseTag]]
  /\ UNCHANGED <<fs, hist, ncalls, live>>

\* the process is killed in the step thread t is taking
Crash(t) ==
  /\ outer' = [outer EXCEPT ![t].pc = "crashed"]
  /\ live' = {}

\* GetReparseTag failed: GlobalFree(rd), return FALSE. Else rd->ReparseTag =
\* dwReparseTag, a write through NULL when the allocation had failed, and
\* GetFileAttributes(sFileName) & FILE_ATTRIBUTE_DIRECTORY, the argument of
\* OpenFileForWrite
DAttr(t) ==
  /\ t \in live /\ outer[t].pc = "d_tagged"
  /\ IF outer[t].tagOk = 0
     THEN /\ res' = [res EXCEPT ![t].buffers =
                       IF outer[t].rd = NoBuf THEN @ ELSE @ - 1]
          /\ Return(t, Ev(log[t], "DeleteReparsePoint", "free"), FALSE_)
          /\ UNCHANGED live
     ELSE IF outer[t].rd = NoBuf
     THEN /\ Crash(t)
          /\ UNCHANGED <<res, log>>
     ELSE /\ outer' = [outer EXCEPT ![t].pc = "d_open",
                         ![t].rd.tag = outer[t].dwReparseTag,
                         ![t].bBackup = IsDirectoryArg(fs, outer[t].path)]
          /\ log' = [log EXCEPT ![t] = Ev(@, "DeleteReparsePoint", "attrs")]
          /\ UNCHANGED <<res, live>>
  /\ UNCHANGED <<fs, q, hist, ncalls>>

\* hDel = OpenFileForWrite(sFileName, bBackup): the CreateFile call; an
\* invalid handle returns FALSE at once
DOpen(t) ==
  /\ t \in live /\ outer[t].pc = "d_open"
  /\ \E ok \in BOOLEAN :
       LET p == outer[t].path
           h == OpenFileForWrite(fs, p, outer[t].bBackup, ok)
           opened == h.ok
           lg == [Ev(log[t], "DeleteReparsePoint", "open") EXCEPT
                    !.opens = Append(@, h),
                    !.refused = @ \/ Refused(fs[p].exists, ok)]
       IN IF opened
          THEN /\ outer' = [outer EXCEPT ![t].pc = "d_delete1",
                              ![t].hHandle = h.access]
               /\ res' = [res EXCEPT ![t].handles = @ + 1]
               /\ log' = [log EXCEPT ![t] = lg]
          ELSE /\ Return(t, lg, FALSE_)
               /\ UNCHANGED res
  /\ UNCHANGED <<fs, q, hist, ncalls, live>>

\* DeleteRequest going on to the next attempt whatever the outcome
DeleteRequestNoStop(t, buf, next) ==
  \E ok \in BOOLEAN :
    LET p == outer[t].path
        accepted == DeleteAccepted(fs, p, buf, ok)
    IN /\ fs' = IF accepted THEN Removed(fs, p) ELSE fs
       /\ outer' = [outer EXCEPT ![t].rd = buf,
                       ![t].bResult = IF accepted THEN TRUE_ ELSE FALSE_,
                       ![t].pc = next]
       /\ log' = [log EXCEPT ![t] =
                    [Ev(@, "DeleteReparsePoint", "DELETE") EXCEPT
                       !.reqs =
                         Append(@, ReqEntry("DELETE", outer[t].hHandle, buf,
                                            REPARSE_GUID_DATA_BUFFER_HEADER_SIZE,
                                            accepted)),
                       !.refused = @ \/ Refused(DeleteAccepted(fs, p, buf, TRUE), ok)]]

\* the DELETE request with the buffer as it stands
DeleteRequest(t, buf, next) ==
  \E ok \in BOOLEAN :
    LET p == outer[t].path
        accepted == DeleteAccepted(fs, p, buf, ok)
    IN /\ fs' = IF accepted THEN Removed(fs, p) ELSE fs
       /\ outer' = [outer EXCEPT ![t].rd = buf,
                       ![t].bResult = IF accepted THEN TRUE_ ELSE FALSE_,
                       ![t].pc = IF accepted THEN "d_free" ELSE next]
       /\ log' = [log EXCEPT ![t] =
                    [Ev(@, "DeleteReparsePoint", "DELETE") EXCEPT
                       !.reqs =
                         Append(@, ReqEntry("DELETE", outer[t].hHandle, buf,
                                            REPARSE_GUID_DATA_BUFFER_HEADER_SIZE,
                                            accepted)),
                       !.refused = @ \/ Refused(DeleteAccepted(fs, p, buf, TRUE), ok)]]

\* bResult = DeviceIoControl(hDel, FSCTL_DELETE_REPARSE_POINT, rd, ..)
DDelete1(t) ==
  /\ t \in live /\ outer[t].pc = "d_delete1"
  /\ DeleteRequest(t, outer[t].rd, "d_delete2")
  /\ UNCHANGED <<q, res, hist, ncalls, live>>

\* DDelete2 without the assignment of the GUID
DDelete2NoGuid(t) ==
  /\ t \in live /\ outer[t].pc = "d_delete2"
  /\ DeleteRequest(t, outer[t].rd, "d_free")
  /\ UNCHANGED <<q, res, hist, ncalls, live>>

\* DDelete2 looking at the path again first: no second attempt when the
\* reparse point has gone
DDelete2Recheck(t) ==
  /\ t \in live /\ outer[t].pc = "d_delete2"
  /\ IF fs[outer[t].path].has
     THEN DeleteRequest(t, [outer[t].rd EXCEPT !.guid = outer[t].gu], "d_free")
     ELSE /\ outer' = [outer EXCEPT ![t].pc = "d_free"]
          /\ UNCHANGED <<fs, log>>
  /\ UNCHANGED <<q, res, hist, ncalls, live>>

\* rd->ReparseGuid = gu; bResult = DeviceIoControl(.. the same request ..)
DDelete2(t) ==
  /\ t \in live /\ outer[t].pc = "d_delete2"
  /\ DeleteRequest(t, [outer[t].rd EXCEPT !.guid = outer[t].gu], "d_free")
  /\ UNCHANGED <<q, res, hist, ncalls, live>>

\* GlobalFree(rd)
DFree(t) ==
  /\ t \in live /\ outer[t].pc = "d_free"
  /\ outer' = [outer EXCEPT ![t].pc = "d_close"]
  /\ res' = [res EXCEPT ![t].buffers = @ - 1]
  /\ log' = [log EXCEPT ![t] = Ev(@, "DeleteReparsePoint", "free")]
  /\ UNCHANGED <<fs, q, hist, ncalls, live>>

\* CloseHandle(hDel); return bResult
DClose(t) ==
  /\ t \in live /\ outer[t].pc = "d_close"
  /\ res' = [res EXCEPT ![t].handles = @ - 1]
  /\ Return(t, Ev(log[t], "DeleteReparsePoint", "close"), outer[t].bResult)
  /\ hist' = IF outer[t].bResult = TRUE_
             THEN [hist EXCEPT ![outer[t].path] =
                     [op |-> "DELETE", args |-> NoArgs, prior |-> TRUE]]
             ELSE hist
  /\ UNCHANGED <<fs, q, ncalls, live>>

----------------------------------------------------------------------------
(* CreateCustomReparsePoint *)

CallCreate(t, p, pl, isNull, id) ==
  /\ t \in live /\ Idle(t) /\ ncalls[t] < MaxCalls
  /\ ncalls' = [ncalls EXCEPT ![t] = @ + 1]
  /\ outer' = [outer EXCEPT ![t] =
                 [IdleOuter EXCEPT !.fn = "CreateCustomReparsePoint", !.pc = "c_check",
                                   !.path = p, !.pBufferNull = isNull,
                                   !.uBufSize = pl.size, !.fill = pl.fill,
                                   !.uGuid = id.guid, !.uReparseTag = id.tag]]
  /\ log' = [log EXCEPT ![t] =
               NewLog(t, "CreateCustomReparsePoint", p,
                      [isNull |-> isNull, size |-> pl.size, fill |-> pl.fill,
                       guid |-> id.guid, tag |-> id.tag])]
  /\ UNCHANGED <<fs, q, res, hist, live>>

\* ArgsRejected without the test for a null payload
ArgsRejectedNoNull(pBufferNull, uBufSize) ==
  uBufSize = 0 \/ uBufSize > MAXIMUM_REPARSE_DATA_BUFFER_SIZE

\* the argument check of CreateCustomReparsePoint
ArgsRejected(pBufferNull, uBufSize) ==
  pBufferNull \/ uBufSize = 0 \/ uBufSize > MAXIMUM_REPARSE_DATA_BUFFER_SIZE

\* the argument check, then GetFileAttributes(sFileName) &
\* FILE_ATTRIBUTE_DIRECTORY, the argument of OpenFileForWrite
CAttr(t) ==
  /\ t \in live /\ outer[t].pc = "c_check"
  /\ IF ArgsRejected(outer[t].pBufferNull, outer[t].uBufSize)
     THEN Return(t, log[t], outer[t].bResult)
     ELSE /\ outer' = [outer EXCEPT ![t].pc = "c_open",
                         ![t].bBackup = IsDirectoryArg(fs, outer[t].path)]
          /\ log' = [log EXCEPT ![t] = Ev(@, "CreateCustomReparsePoint", "attrs")]
  /\ UNCHANGED <<fs, q, res, hist, ncalls, live>>

\* hHandle = OpenFileForWrite(sFileName, bBackup): the CreateFile call
COpen(t) ==
  /\ t \in live /\ outer[t].pc = "c_open"
  /\ \E ok \in BOOLEAN :
       LET p == outer[t].path
           h == OpenFileForWrite(fs, p, outer[t].bBackup, ok)
           opened == h.ok
           lg == [Ev(log[t], "CreateCustomReparsePoint", "open") EXCEPT
                    !.opens = Append(@, h),
                    !.refused = @ \/ Refused(fs[p].exists, ok)]
       IN IF opened
          THEN /\ outer' = [outer EXCEPT ![t].pc = "c_alloc",
                              ![t].hHandle = h.access]
               /\ res' = [res EXCEPT ![t].handles = @ + 1]
               /\ log' = [log EXCEPT ![t] = lg]
          ELSE /\ Return(t, lg, outer[t].bResult)
               /\ UNCHANGED res
  /\ UNCHANGED <<fs, q, hist, ncalls, live>>

\* the bytes the function writes into a buffer: the header and the payload
BytesWritten(uBufSize) == REPARSE_GUID_DATA_BUFFER_HEADER_SIZE + uBufSize

\* Filled without the assignment of the GUID
FilledNoGuid(buf, o) ==
  [buf EXCEPT !.tag = o.uReparseTag, !.len = o.uBufSize % WordModulus,
              !.reserved = 0, !.size = o.uBufSize, !.fill = o.fill]

\* the buffer after the four field assignments and the memcpy
Filled(buf, o) ==
  [buf EXCEPT !.tag = o.uReparseTag, !.len = o.uBufSize % WordModulus,
              !.reserved = 0, !.guid = o.uGuid, !.size = o.uBufSize, !.fill = o.fill]

\* rd = GlobalAlloc(GPTR, MAXIMUM_REPARSE_DATA_BUFFER_SIZE), not tested, the
\* header fields and memcpy(rd->GenericReparseBuffer.DataBuffer, pBuffer,
\* uBufSize). With rd NULL the first assignment writes through NULL and the
\* process is killed. A memcpy past the end of the allocation is undefined:
\* the process dies there, or goes on with a damaged heap
CFill(t) ==
  /\ t \in live /\ outer[t].pc = "c_alloc"
  /\ \E got \in BOOLEAN, dies \in BOOLEAN :
       LET buf == GlobalAlloc(MAXIMUM_REPARSE_DATA_BUFFER_SIZE, got)
           over == got /\ BytesWritten(outer[t].uBufSize) > buf.cap
           lg == [Ev(log[t], "CreateCustomReparsePoint", "alloc") EXCEPT
                    !.overflow = over, !.refused = @ \/ ~got]
       IN /\ IF ~got \/ (over /\ dies)
             THEN /\ outer' = [outer EXCEPT
                                ![t].rd = IF got THEN Filled(buf, outer[t]) ELSE buf,
                                ![t].pc = "crashed"]
                  /\ live' = {}
             ELSE /\ outer' = [outer EXCEPT ![t].rd = Filled(buf, outer[t]),
                                            ![t].pc = "c_set"]
                  /\ UNCHANGED live
          /\ log' = [log EXCEPT ![t] = lg]
          /\ res' = [res EXCEPT ![t].buffers = IF got THEN @ + 1 ELSE @]
  /\ UNCHANGED <<fs, q, hist, ncalls>>

\* CSet with the file name kept in one variable for all threads: the request
\* goes to the path of the call another thread has in progress, if any
CSetSharedName(t) ==
  /\ t \in live /\ outer[t].pc = "c_set"
  /\ \E ok \in BOOLEAN :
       LET others == {u \in live \ {t} : ~Idle(u)}
           p == IF others = {} THEN outer[t].path
                ELSE log[CHOOSE u \in others : TRUE].path
           rd == outer[t].rd
           count == rd.len + REPARSE_GUID_DATA_BUFFER_HEADER_SIZE
       IN /\ fs' = IF ok THEN [fs EXCEPT ![p].has = TRUE, ![p].rp = PointOf(rd)]
                   ELSE fs
          /\ outer' = [outer EXCEPT ![t].pc = "c_close",
                          ![t].bResult = IF ok THEN TRUE_ ELSE @]
          /\ log' = [log EXCEPT ![t] =
                       [Ev(@, "CreateCustomReparsePoint", "SET") EXCEPT
                          !.reqs = Append(@, ReqEntry("SET", outer[t].hHandle, rd,
                                                      count, ok)),
                          !.refused = @ \/ ~ok]]
  /\ UNCHANGED <<q, res, hist, ncalls, live>>

\* DeviceIoControl(hHandle, FSCTL_SET_REPARSE_POINT, rd,
\* rd->ReparseDataLength + REPARSE_GUID_DATA_BUFFER_HEADER_SIZE, ..)
CSet(t) ==
  /\ t \in live /\ outer[t].pc = "c_set"
  /\ \E ok \in BOOLEAN :
       LET p == outer[t].path
           rd == outer[t].rd
           count == rd.len + REPARSE_GUID_DATA_BUFFER_HEADER_SIZE
       IN /\ fs' = IF ok THEN [fs EXCEPT ![p].has = TRUE, ![p].rp = PointOf(rd)]
                   ELSE fs
          /\ outer' = [outer EXCEPT ![t].pc = "c_close",
                          ![t].bResult = IF ok THEN TRUE_ ELSE @]
          /\ log' = [log EXCEPT ![t] =
                       [Ev(@, "CreateCustomReparsePoint", "SET") EXCEPT
                          !.reqs = Append(@, ReqEntry("SET", outer[t].hHandle, rd,
                                                      count, ok)),
                          !.refused = @ \/ ~ok]]
  /\ UNCHANGED <<q, res, hist, ncalls, live>>

\* CloseHandle(hHandle)
CClose(t) ==
  /\ t \in live /\ outer[t].pc = "c_close"
  /\ outer' = [outer EXCEPT ![t].pc = "c_free"]
  /\ res' = [res EXCEPT ![t].handles = @ - 1]
  /\ log' = [log EXCEPT ![t] = Ev(@, "CreateCustomReparsePoint", "close")]
  /\ UNCHANGED <<fs, q, hist, ncalls, live>>

\* GlobalFree(rd); return bResult. After a memcpy that ran past the end of
\* the allocation the heap is damaged: GlobalFree frees the buffer and
\* returns, or finds the damage and kills the process
CFree(t) ==
  /\ t \in live /\ outer[t].pc = "c_free"
  /\ \E dies \in BOOLEAN :
       IF dies /\ BytesWritten(outer[t].uBufSize) > outer[t].rd.cap
       THEN /\ Crash(t)
            /\ log' = [log EXCEPT ![t] = Ev(@, "CreateCustomReparsePoint", "free")]
            /\ UNCHANGED <<res, hist>>
       ELSE /\ res' = [res EXCEPT ![t].buffers = @ - 1]
            /\ Return(t, Ev(log[t], "CreateCustomReparsePoint", "free"),
                      outer[t].bResult)
            /\ hist' = IF outer[t].bResult = TRUE_
                       THEN [hist EXCEPT ![outer[t].path] =
                               [op |-> "SET", args |-> log[t].args,
                                prior |-> log[t].fs0[outer[t].path].has]]
                       ELSE hist
            /\ UNCHANGED live
  /\ UNCHANGED <<fs, q, ncalls>>

----------------------------------------------------------------------------
(* The specification *)

Next ==
  \E t \in Threads :
    \/ \E p \in Paths : CallExists(t, p)
    \/ XExists(t)
    \/ \E fn \in {"GetReparseGUID", "GetReparseTag"}, p \in Paths, pNull \in BOOLEAN :
         CallQuery(t, fn, p, pNull)
    \/ QCheck(t) \/ QAttr(t) \/ QOpen(t) \/ QAlloc(t) \/ QIoctl(t) \/ QClose(t) \/ QFree(t)
    \/ \E p \in Paths : CallDelete(t, p)
    \/ DExists(t) \/ DAlloc(t) \/ DAttr(t) \/ DOpen(t)
    \/ DDelete1(t) \/ DDelete2(t)
    \/ DFree(t) \/ DClose(t)
    \/ \E p \in Paths, pl \in Payloads, isNull \in BOOLEAN, id \in Idents :
         CallCreate(t, p, pl, isNull, id)
    \/ CAttr(t) \/ COpen(t) \/ CFill(t) \/ CSet(t) \/ CClose(t) \/ CFree(t)

Spec == Init /\ [][Next]_vars

----------------------------------------------------------------------------
(* The library beside another process working on the same paths *)

\* what another process can leave on a path: no reparse point, or one of its
\* own making, which may differ from the one before in its payload only
OtherPoints ==
  InitPoints \cup {NoPoint}
    \cup {[rp EXCEPT !.fill = 187] : rp \in {r \in InitPoints : ~IsReparseTagMicrosoft(r.tag)}}

\* between two steps of the call thread t is making, another process removes
\* the reparse point of the call's path or puts rp in its place; once per call
Interfere(t, rp) ==
  /\ t \in live /\ ~Idle(t)
  /\ LET p == log[t].path
     IN /\ fs[p].has
        /\ rp # fs[p].rp
        /\ \A i \in 1 .. Len(log[t].ev) : log[t].ev[i].by # "another process"
        /\ fs' = [fs EXCEPT ![p].has = (rp # NoPoint), ![p].rp = rp]
        /\ log' = [log EXCEPT ![t] =
                     Ev(@, "another process",
                        IF rp = NoPoint THEN "remove" ELSE "alter")]
        /\ hist' = [hist EXCEPT ![p] = NoHist]
  /\ UNCHANGED <<outer, q, res, ncalls, live>>

\* the payloads of the creations made beside another process: the empty one
\* and a small one
RacePayloads == {pl \in Payloads : pl.size < MaxPayload /\ pl.fill = 170}

NextRace ==
  \E t \in Threads :
    \/ \E p \in Paths : CallExists(t, p)
    \/ XExists(t)
    \/ \E fn \in {"GetReparseGUID", "GetReparseTag"}, p \in Paths, pNull \in BOOLEAN :
         CallQuery(t, fn, p, pNull)
    \/ QCheck(t) \/ QAttr(t) \/ QOpen(t) \/ QAlloc(t) \/ QIoctl(t) \/ QClose(t) \/ QFree(t)
    \/ \E p \in Paths : CallDelete(t, p)
    \/ DExists(t) \/ DAlloc(t) \/ DAttr(t) \/ DOpen(t)
    \/ DDelete1(t) \/ DDelete2(t)
    \/ DFree(t) \/ DClose(t)
    \/ \E p \in Paths, pl \in RacePayloads, isNull \in BOOLEAN, id \in Idents :
         CallCreate(t, p, pl, isNull, id)
    \/ CAttr(t) \/ COpen(t) \/ CFill(t) \/ CSet(t) \/ CClose(t) \/ CFree(t)
    \/ \E rp \in OtherPoints : Interfere(t, rp)

SpecRace == Init /\ [][NextRace]_vars

----------------------------------------------------------------------------
(* Two threads, one operation each, on different paths *)

\* the path a thread works on
PathOf(t) == IF t = 1 THEN "P" ELSE "Q"

\* thread t has made no call yet
Fresh(t) == log[t].fn = "none"

\* both threads live; P a directory with a reparse point, Q a file with or
\* without one
InitConc ==
  /\ \E rp \in InitPoints, rq \in OtherPoints :
       fs = [InitFs(rp) EXCEPT !["Q"].has = (rq # NoPoint), !["Q"].rp = rq]
  /\ outer = [t \in Threads |-> IdleOuter]
  /\ q = [t \in Threads |-> IdleQ]
  /\ res = [t \in Threads |-> NoRes]
  /\ log = [t \in Threads |-> NoLog(fs)]
  /\ hist = [p \in Paths |-> NoHist]
  /\ ncalls = [t \in Threads |-> 0]
  /\ live = Threads

NextConc ==
  \E t \in Threads :
    \/ Fresh(t) /\ CallExists(t, PathOf(t))
    \/ XExists(t)
    \/ \E fn \in {"GetReparseGUID", "GetReparseTag"}, pNull \in BOOLEAN :
         Fresh(t) /\ CallQuery(t, fn, PathOf(t), pNull)
    \/ QCheck(t) \/ QAttr(t) \/ QOpen(t) \/ QAlloc(t) \/ QIoctl(t) \/ QClose(t) \/ QFree(t)
    \/ Fresh(t) /\ CallDelete(t, PathOf(t))
    \/ DExists(t) \/ DAlloc(t) \/ DAttr(t) \/ DOpen(t)
    \/ DDelete1(t) \/ DDelete2(t)
    \/ DFree(t) \/ DClose(t)
    \/ \E pl \in RacePayloads, isNull \in BOOLEAN, id \in Idents :
         Fresh(t) /\ CallCreate(t, PathOf(t), pl, isNull, id)
    \/ CAttr(t) \/ COpen(t) \/ CFill(t) \/ CSet(t) \/ CClose(t) \/ CFree(t)

SpecConc == InitConc /\ [][NextConc]_vars

----------------------------------------------------------------------------
(* Vocabulary of the properties *)

\* thread t has returned from a call of fn
Returned(t, fn) == log[t].fn = fn /\ log[t].done

\* the requests of one kind the call of t has issued so far
Requests(t, kind) == SelectSeq(log[t].reqs, LAMBDA r : r.kind = kind)

\* the CreateFile calls of t's call that gave a handle
Opened(t) == SelectSeq(log[t].opens, LAMBDA o : o.ok)

\* the BOOL of an outcome
BoolOf(b) == IF b THEN TRUE_ ELSE FALSE_

----------------------------------------------------------------------------
(* C1 *)

\* C1: when DeleteReparsePoint returns, whatever its steps came to, the
\* thread holds the handles and buffers it held when the call began: no
\* handle the call opened is open, no buffer it allocated is allocated.
C1_DeleteReleasesAll ==
  \A t \in Threads : Returned(t, "DeleteReparsePoint") => res[t] = log[t].res0

----------------------------------------------------------------------------
(* C2 *)

\* C2: ReparsePointExists returns a nonzero BOOL exactly for the paths that
\* carry the reparse-point attribute; for a path that does not exist it
\* returns FALSE.
C2_ExistsIffAttribute ==
  \A t \in Threads :
    Returned(t, "ReparsePointExists") =>
      ((log[t].result # FALSE_) <=> log[t].fs0[log[t].path].has)

----------------------------------------------------------------------------
(* C3 *)

\* the call of t is one of the three on a path without the attribute
C3_Case(t) ==
  /\ log[t].fn \in {"GetReparseGUID", "GetReparseTag", "DeleteReparsePoint"}
  /\ ~log[t].fs0[log[t].path].has

\* C3: on a path without the reparse-point attribute GetReparseGUID,
\* GetReparseTag and DeleteReparsePoint never hold a handle and never issue a
\* control request, leave the file system as it was, and return FALSE: the
\* first call and every repetition alike.
C3_NoAttributeFailsClean ==
  \A t \in Threads :
    C3_Case(t) =>
      /\ Opened(t) = <<>>
      /\ res[t].handles = log[t].res0.handles
      /\ log[t].reqs = <<>>
      /\ fs = log[t].fs0
      /\ (log[t].done => log[t].result = FALSE_)

\* a second call in a row, a DeleteReparsePoint on a path without the
\* attribute, has returned
C3_Witness ==
  /\ Returned(1, "DeleteReparsePoint")
  /\ C3_Case(1)
  /\ ncalls[1] = 2
  /\ log[1].result = FALSE_

----------------------------------------------------------------------------
(* C4 *)

\* C4: when DeleteReparsePoint has returned and the driver rejected the
\* first DELETE and accepted the next one, the call issued exactly two
\* DELETE requests, the first with the GUID field as allocated (zero), the
\* second with the GUID of the reparse point, and returned TRUE.
C4_FallbackOrder ==
  \A t \in Threads :
    LET dels == Requests(t, "DELETE") IN
    (/\ Returned(t, "DeleteReparsePoint")
     /\ Len(dels) >= 1 /\ ~dels[1].ok
     /\ (Len(dels) >= 2 => dels[2].ok))
    => /\ Len(dels) = 2
       /\ dels[1].guid = GUID_NULL
       /\ dels[2].guid = log[t].fs0[log[t].path].rp.guid
       /\ log[t].result = TRUE_

\* a deletion that was rejected without the GUID and accepted with it
C4_Witness ==
  LET dels == Requests(1, "DELETE") IN
  /\ Returned(1, "DeleteReparsePoint")
  /\ Len(dels) = 2 /\ ~dels[1].ok /\ dels[2].ok
  /\ dels[2].guid # GUID_NULL
  /\ ~log[1].refused
  /\ log[1].result = TRUE_

----------------------------------------------------------------------------
(* C5 *)

\* C5: a call of DeleteReparsePoint issues at most two DELETE requests, the
\* second only after the first was rejected; when the first is accepted the
\* call returns TRUE, and when a second is issued the call returns what the
\* second came to.
C5_AtMostTwoDeletes ==
  \A t \in Threads :
    LET dels == Requests(t, "DELETE") IN
    log[t].fn = "DeleteReparsePoint" =>
      /\ Len(dels) <= 2
      /\ (Len(dels) = 2 => ~dels[1].ok)
      /\ (log[t].done /\ Len(dels) >= 1 /\ dels[1].ok => log[t].result = TRUE_)
      /\ (log[t].done /\ Len(dels) = 2 => log[t].result = BoolOf(dels[2].ok))

\* both DELETE requests were rejected and the call returned FALSE
C5_Witness ==
  LET dels == Requests(1, "DELETE") IN
  /\ Returned(1, "DeleteReparsePoint")
  /\ Len(dels) = 2 /\ ~dels[1].ok /\ ~dels[2].ok
  /\ log[1].result = FALSE_

----------------------------------------------------------------------------
(* C6 *)

\* C6: CreateCustomReparsePoint with a payload of exactly MaxPayload bytes
\* returns TRUE when the driver accepts the SET; with a payload of
\* MaxPayload + 1 bytes it calls no CreateFile, issues no request and
\* returns FALSE.
C6_SizeBoundary ==
  \A t \in Threads :
    LET sets == Requests(t, "SET") IN
    (log[t].fn = "CreateCustomReparsePoint" /\ ~log[t].args.isNull) =>
      /\ (/\ log[t].args.size = MaxPayload
          /\ log[t].done /\ Len(sets) = 1 /\ sets[1].ok) => log[t].result = TRUE_
      /\ log[t].args.size = MaxPayload + 1 =>
           /\ log[t].opens = <<>>
           /\ log[t].reqs = <<>>
           /\ (log[t].done => log[t].result = FALSE_)

----------------------------------------------------------------------------
(* C7 *)

\* C7: for every payload length the argument check lets through, the bytes
\* written into the buffer (header and payload) and the byte count of the SET
\* request stay within MAXIMUM_REPARSE_DATA_BUFFER_SIZE, the capacity of the
\* buffer.
C7_WithinCapacity ==
  \A t \in Threads :
    log[t].fn = "CreateCustomReparsePoint" =>
      /\ ~log[t].overflow
      /\ ((outer[t].pc \in {"c_set", "c_close", "c_free", "crashed"}
             /\ outer[t].rd # NoBuf) =>
            BytesWritten(outer[t].uBufSize) <= outer[t].rd.cap)
      /\ \A i \in 1 .. Len(log[t].reqs) :
           log[t].reqs[i].kind = "SET" =>
             log[t].reqs[i].count <= MAXIMUM_REPARSE_DATA_BUFFER_SIZE

----------------------------------------------------------------------------
(* C8 *)

\* the last call that changed the reparse point of p was a successful
\* CreateCustomReparsePoint with a payload of valid length, on a path that
\* had no reparse point
C8_Created(p) ==
  /\ hist[p].op = "SET"
  /\ ~hist[p].prior
  /\ hist[p].args.size >= 1 /\ hist[p].args.size <= MaxPayload

\* no later call that changes reparse points is at work on p, and none was
\* killed after its request had changed p
C8_Quiet(p) ==
  \A t \in Threads :
    outer[t].path = p =>
      \/ outer[t].pc \in {"idle", "x_attr"}
      \/ /\ outer[t].pc = "crashed"
         /\ \A i \in 1 .. Len(log[t].reqs) :
              ~(log[t].reqs[i].kind \in {"SET", "DELETE"} /\ log[t].reqs[i].ok)

\* C8: once CreateCustomReparsePoint(p, data, g, t) has returned TRUE on a
\* path without a reparse point, and until a later call changes p, the store
\* holds for p the tag t, the GUID g and the payload data with data length
\* Len(data), and a GetReparseTag or GetReparseGUID on p that the environment
\* does not refuse returns TRUE and puts t, or g, into the output variable.
C8_RoundTrip ==
  /\ \A p \in Paths :
       (C8_Created(p) /\ C8_Quiet(p)) =>
         /\ fs[p].has
         /\ fs[p].rp = [tag |-> hist[p].args.tag, guid |-> hist[p].args.guid,
                        len |-> hist[p].args.size, size |-> hist[p].args.size,
                        fill |-> hist[p].args.fill]
  /\ \A t \in Threads :
       (/\ log[t].fn \in {"GetReparseGUID", "GetReparseTag"}
        /\ log[t].done
        /\ C8_Created(log[t].path)
        /\ ~log[t].args.isNull
        /\ ~log[t].refused)
       => /\ log[t].result = TRUE_
          /\ log[t].out = IF log[t].fn = "GetReparseGUID"
                          THEN hist[log[t].path].args.guid
                          ELSE hist[log[t].path].args.tag

\* GetReparseGUID has returned the GUID of a reparse point created on the
\* plain file Q
C8_Witness ==
  /\ Returned(1, "GetReparseGUID")
  /\ log[1].path = "Q"
  /\ C8_Created("Q")
  /\ hist["Q"].args.size = MaxPayload
  /\ log[1].result = TRUE_
  /\ log[1].out = 1

----------------------------------------------------------------------------
(* C9 *)

\* C9: CreateCustomReparsePoint with a null payload or a payload of length
\* zero calls no CreateFile, issues no request, holds no handle or buffer,
\* leaves the file system as it was and returns FALSE.
C9_EmptyPayloadNoEffect ==
  \A t \in Threads :
    (/\ log[t].fn = "CreateCustomReparsePoint"
     /\ (log[t].args.isNull \/ log[t].args.size = 0))
    => /\ log[t].opens = <<>>
       /\ log[t].reqs = <<>>
       /\ res[t] = log[t].res0
       /\ fs = log[t].fs0
       /\ (log[t].done => log[t].result = FALSE_)

\* a call with a null payload of nonzero length has returned, on a path
\* without a reparse point
C9_Witness ==
  /\ Returned(1, "CreateCustomReparsePoint")
  /\ log[1].args.isNull /\ log[1].args.size > 0
  /\ ~fs[log[1].path].has /\ fs[log[1].path].exists
  /\ log[1].result = FALSE_

----------------------------------------------------------------------------
(* C10 *)

\* C10: on a path carrying a vendor reparse point, with an environment that
\* refuses nothing, DeleteReparsePoint returns TRUE; whenever it has returned
\* TRUE the path carries no reparse point, and a ReparsePointExists that
\* follows returns FALSE.
C10_DeleteThenCheck ==
  \A t \in Threads :
    LET p == log[t].path IN
    /\ (/\ Returned(t, "DeleteReparsePoint")
        /\ log[t].fs0[p].has
        /\ ~IsReparseTagMicrosoft(log[t].fs0[p].rp.tag)
        /\ ~log[t].refused) => log[t].result = TRUE_
    /\ (Returned(t, "DeleteReparsePoint") /\ log[t].result = TRUE_) =>
         /\ ~fs[p].has
         /\ ~NonZero(ReparsePointExists(fs, p))
    /\ (Returned(t, "ReparsePointExists") /\ hist[p].op = "DELETE") =>
         log[t].result = FALSE_

\* ReparsePointExists has returned FALSE on a path whose reparse point the
\* call before deleted
C10_Witness ==
  /\ Returned(1, "ReparsePointExists")
  /\ hist[log[1].path].op = "DELETE"
  /\ log[1].result = FALSE_

(* C11: deletion goes on only with both the GUID and the tag in hand *)

\* both nested queries of the call of thread t had their GET accepted: the
\* GUID and the tag were retrieved
C11_BothRetrieved(t) ==
  /\ Len(Requests(t, "GET")) = 2
  /\ \A i \in 1 .. 2 : Requests(t, "GET")[i].ok

\* C11: in a call of DeleteReparsePoint, a handle for writing is asked for
\* and a DELETE request is issued only after both the GUID query and the tag
\* query succeeded; when either of them failed the call returns FALSE with no
\* open for writing and no DELETE request
C11_DeleteNeedsGuidAndTag ==
  \A t \in Threads :
    log[t].fn = "DeleteReparsePoint" =>
      /\ (\E i \in 1 .. Len(log[t].opens) : log[t].opens[i].access = "write")
           => C11_BothRetrieved(t)
      /\ Requests(t, "DELETE") # <<>> => C11_BothRetrieved(t)
      /\ (log[t].done /\ ~C11_BothRetrieved(t)) => log[t].result = FALSE_

\* a deletion that returned after the GUID query succeeded and the tag query
\* was turned down: no open for writing, no DELETE request
C11_Witness ==
  \E t \in Threads :
    /\ Returned(t, "DeleteReparsePoint")
    /\ Len(Requests(t, "GET")) = 2
    /\ Requests(t, "GET")[1].ok /\ ~Requests(t, "GET")[2].ok
    /\ Requests(t, "DELETE") = <<>>
    /\ \A i \in 1 .. Len(log[t].opens) : log[t].opens[i].access = "read"
    /\ log[t].result = FALSE_

(* C12: the queries and the creation release what they took *)

\* C12: when GetReparseGUID, GetReparseTag or CreateCustomReparsePoint
\* returns, whatever the outcome of the argument check, the existence check,
\* the open and the control request, and also when another process took the
\* reparse point away after the existence check, the thread holds no handle
\* and no buffer beyond those it held when the call was made
C12_QueryCreateReleaseAll ==
  \A t \in Threads :
    \A fn \in {"GetReparseGUID", "GetReparseTag", "CreateCustomReparsePoint"} :
      Returned(t, fn) => res[t] = log[t].res0

\* a query that passed the existence check, lost the reparse point to another
\* process, had its GET rejected for that reason alone and returned
C12_Witness ==
  \E t \in Threads :
    /\ Returned(t, "GetReparseGUID")
    /\ ~log[t].refused
    /\ Len(log[t].reqs) = 1 /\ ~log[t].reqs[1].ok
    /\ \E i, j \in 1 .. Len(log[t].ev) :
         /\ i < j
         /\ log[t].ev[i].what = "exists"
         /\ log[t].ev[j] = [by |-> "another process", what |-> "remove"]
    /\ res[t] = log[t].res0

(* C13: operations on different paths do not affect each other *)

\* the entry of a path after the requests of one call, applied in order to
\* the entry e the call found
RECURSIVE C13_Apply(_, _)
C13_Apply(e, reqs) ==
  IF reqs = <<>> THEN e
  ELSE LET r == Head(reqs)
           e1 == IF r.ok /\ r.kind = "DELETE"
                 THEN [e EXCEPT !.has = FALSE, !.rp = NoPoint]
                 ELSE IF r.ok /\ r.kind = "SET"
                 THEN [e EXCEPT !.has = TRUE,
                                !.rp = [tag |-> r.tag, guid |-> r.guid, len |-> r.len,
                                        size |-> r.size, fill |-> r.fill]]
                 ELSE e
       IN C13_Apply(e1, Tail(reqs))

\* what the call recorded in lg gives when it runs with nothing else going
\* on and no request refused by the environment: its result, its output
\* value and the entry of its path afterwards
C13_Alone(lg) ==
  LET f == lg.fs0
      p == lg.path
      e == f[p]
      a == lg.args
      no == [result |-> FALSE_, out |-> Unset, entry |-> e]
  IN CASE lg.fn = "ReparsePointExists" ->
            [no EXCEPT !.result = WordValue(ReparsePointExists(f, p))]
       [] lg.fn = "GetReparseGUID" ->
            IF ~a.isNull /\ e.has
            THEN [no EXCEPT !.result = TRUE_, !.out = e.rp.guid] ELSE no
       [] lg.fn = "GetReparseTag" ->
            IF ~a.isNull /\ e.has
            THEN [no EXCEPT !.result = TRUE_, !.out = e.rp.tag] ELSE no
       [] lg.fn = "DeleteReparsePoint" ->
            IF e.has
            THEN [no EXCEPT !.result = TRUE_, !.entry = Removed(f, p)[p]] ELSE no
       [] lg.fn = "CreateCustomReparsePoint" ->
            IF ~ArgsRejected(a.isNull, a.size) /\ e.exists
            THEN [no EXCEPT !.result = TRUE_,
                            !.entry = [e EXCEPT !.has = TRUE,
                                         !.rp = [tag |-> a.tag, guid |-> a.guid,
                                                 len |-> a.size % WordModulus,
                                                 size |-> a.size, fill |-> a.fill]]]
            ELSE no

\* C13: with two threads each running one public operation, on different
\* paths, step by step in any interleaving: at every moment the entry of a
\* thread's path is the entry its call found changed by the call's own
\* accepted requests alone, and a call that returns without a refusal by the
\* environment has the result, the output value and the final entry of its
\* path that it has when run alone
C13_IndependentPaths ==
  \A t \in Threads :
    log[t].fn # "none" =>
      LET lg == log[t]
          p == lg.path
      IN /\ \A u \in Threads \ {t} : log[u].fn # "none" => log[u].path # p
         /\ fs[p] = C13_Apply(lg.fs0[p], lg.reqs)
         /\ (lg.done /\ ~lg.refused /\ ~lg.overflow) =>
              /\ lg.result = C13_Alone(lg).result
              /\ lg.out = C13_Alone(lg).out
              /\ fs[p] = C13_Alone(lg).entry

\* a deletion on P that ran from its DELETE request to its return while a
\* creation on Q was in progress: the creation began while P still had its
\* reparse point, has had its SET accepted and has not returned yet
C13_Witness ==
  /\ Returned(1, "DeleteReparsePoint") /\ log[1].result = TRUE_
  /\ ~fs["P"].has
  /\ log[2].fn = "CreateCustomReparsePoint" /\ ~log[2].done
  /\ log[2].fs0["P"].has
  /\ Requests(2, "SET") # <<>> /\ Requests(2, "SET")[1].ok
  /\ fs["Q"].has

(* C14: another process between the two DELETE attempts *)

\* in the call of thread t another process acted on the path right after the
\* first DELETE request, which had been rejected
C14_RacedBetween(t) ==
  /\ log[t].fn = "DeleteReparsePoint"
  /\ Requests(t, "DELETE") # <<>> /\ ~Requests(t, "DELETE")[1].ok
  /\ \E i \in 1 .. Len(log[t].ev) - 1 :
       /\ log[t].ev[i].what = "DELETE"
       /\ log[t].ev[i + 1].by = "another process"
       /\ \A j \in 1 .. i - 1 : log[t].ev[j].what # "DELETE"

\* the steps of the call of thread t from the first DELETE request on
C14_Tail(t) ==
  LET first == CHOOSE i \in 1 .. Len(log[t].ev) : log[t].ev[i].what = "DELETE"
  IN [k \in 1 .. Len(log[t].ev) - first |-> log[t].ev[first + k].what]

\* C14: when another process removes or replaces the reparse point between
\* the rejected first DELETE request and the second, DeleteReparsePoint
\* still issues the second request, which acts on the path as it then is
\* (it fails when the point has gone, and removes the point when it is
\* accepted), issues no third one, returns the outcome of the second, and
\* returns holding no handle and no buffer of its own
C14_RaceBetweenAttempts ==
  \A t \in Threads :
    C14_RacedBetween(t) =>
      LET dels == Requests(t, "DELETE")
          p == log[t].path
      IN /\ Len(dels) <= 2
         /\ outer[t].pc \notin {"d_delete1", "d_delete2"} => Len(dels) = 2
         /\ Len(dels) = 2 =>
              /\ "remove" \in {log[t].ev[i].what : i \in 1 .. Len(log[t].ev)}
                   => ~dels[2].ok
              /\ dels[2].ok => ~fs[p].has
         /\ log[t].done =>
              /\ log[t].result = BoolOf(dels[2].ok)
              /\ C14_Tail(t) \in {<<"remove", "DELETE", "free", "close">>,
                                  <<"alter", "DELETE", "free", "close">>}
              /\ res[t] = log[t].res0

\* a deletion that returned TRUE from its second attempt, made after another
\* process had replaced the reparse point by one with the same tag and GUID
C14_Witness ==
  \E t \in Threads :
    /\ C14_RacedBetween(t)
    /\ log[t].done /\ log[t].result = TRUE_
    /\ C14_Tail(t) = <<"alter", "DELETE", "free", "close">>
    /\ ~log[t].refused

(* C15: what a query asks of the driver and what it leaves in the output *)

\* the steps the function fn took in the call of thread t that were control
\* requests of the given kind
C15_Steps(t, fn, kind) ==
  {i \in 1 .. Len(log[t].ev) : log[t].ev[i] = [by |-> fn, what |-> kind]}

\* the field of the reparse point of the call's path that the query fn reads
C15_Field(t, fn) ==
  LET rp == log[t].fs0[log[t].path].rp
  IN IF fn = "GetReparseGUID" THEN rp.guid ELSE rp.tag

\* C15: GetReparseGUID and GetReparseTag, called by the library's user or by
\* DeleteReparsePoint, issue at most one GET request and no SET or DELETE
\* request; the output variable is written only when the GET request is
\* accepted, with the GUID or the tag of the buffer returned, and the query
\* returns TRUE exactly then; on every other path (null output pointer, no
\* reparse attribute, open failed, GET rejected) it returns FALSE and the
\* output variable keeps the value it had
C15_QueryOneGetOutputOnSuccess ==
  \A t \in Threads :
    \A fn \in {"GetReparseGUID", "GetReparseTag"} :
      /\ Cardinality(C15_Steps(t, fn, "GET")) <= 1
      /\ C15_Steps(t, fn, "SET") = {} /\ C15_Steps(t, fn, "DELETE") = {}
      /\ q[t].fn = fn =>
           \* accepted: fn has issued its GET request, the latest of the
           \* call, and the request was accepted
           LET accepted == \E i \in 1 .. Len(log[t].reqs) :
                             /\ log[t].reqs[i].ok
                             /\ C15_Steps(t, fn, "GET") # {}
                             /\ i = Cardinality({k \in 1 .. Len(log[t].ev) :
                                                   log[t].ev[k].what = "GET"})
           IN /\ q[t].bResult = BoolOf(accepted)
              /\ q[t].pOut = IF accepted THEN C15_Field(t, fn) ELSE Unset
      /\ log[t].fn = fn =>
           /\ Len(log[t].reqs) <= 1
           /\ \A i \in 1 .. Len(log[t].reqs) : log[t].reqs[i].kind = "GET"
           /\ log[t].done =>
                LET accepted == log[t].reqs # <<>> /\ log[t].reqs[1].ok
                IN /\ log[t].result = BoolOf(accepted)
                   /\ log[t].out = IF accepted THEN C15_Field(t, fn) ELSE Unset
      /\ (log[t].fn = "DeleteReparsePoint" /\ ~log[t].done) =>
           /\ outer[t].gu # Unset =>
                /\ Requests(t, "GET") # <<>> /\ Requests(t, "GET")[1].ok
                /\ outer[t].gu = C15_Field(t, "GetReparseGUID")
                /\ outer[t].guOk = TRUE_
           /\ outer[t].dwReparseTag # Unset =>
                /\ Len(Requests(t, "GET")) = 2 /\ Requests(t, "GET")[2].ok
                /\ outer[t].dwReparseTag = C15_Field(t, "GetReparseTag")
                /\ outer[t].tagOk = TRUE_

\* a query that passed the checks, opened the path, had its GET request
\* rejected and returned FALSE with the output variable as it was
C15_Witness ==
  \E t \in Threads :
    /\ Returned(t, "GetReparseTag")
    /\ Len(log[t].opens) = 1 /\ log[t].opens[1].ok
    /\ Len(log[t].reqs) = 1 /\ ~log[t].reqs[1].ok
    /\ log[t].result = FALSE_
    /\ log[t].out = Unset

(* C17: the one SET request of a creation *)

\* C17: a call of CreateCustomReparsePoint issues at most one control
\* request, a SET, and after it only closes the handle and frees the buffer;
\* it returns TRUE exactly when that request is accepted, so a call whose
\* SET was accepted does not end without returning. The buffer of the
\* request carries the caller's tag, zero in the reserved field, the
\* caller's GUID, the caller's bytes as payload, and as data length the
\* caller's payload length itself, which for every length the argument
\* check lets through is below 2^16; the byte count of the request is
\* REPARSE_GUID_DATA_BUFFER_HEADER_SIZE plus the payload length
C17_OneSetAsGiven ==
  \A t \in Threads :
    log[t].fn = "CreateCustomReparsePoint" =>
      LET a == log[t].args
          sets == Requests(t, "SET")
      IN /\ Len(log[t].reqs) <= 1 /\ sets = log[t].reqs
         /\ \A i \in 1 .. Len(sets) :
              /\ ~ArgsRejected(a.isNull, a.size)
              /\ sets[i].tag = a.tag
              /\ sets[i].reserved = 0
              /\ sets[i].guid = a.guid
              /\ sets[i].size = a.size /\ sets[i].fill = a.fill
              /\ sets[i].len = a.size /\ sets[i].len < WordModulus
              /\ sets[i].count = REPARSE_GUID_DATA_BUFFER_HEADER_SIZE + a.size
         /\ \A i, j \in 1 .. Len(log[t].ev) :
              (log[t].ev[i].what = "SET" /\ i < j)
                => log[t].ev[j].what \in {"close", "free"}
         /\ log[t].done => log[t].result = BoolOf(sets # <<>> /\ sets[1].ok)
         /\ outer[t].pc = "crashed" => ~(sets # <<>> /\ sets[1].ok)

(* C16: the existence check and the first open *)

\* in the call of thread t, every open and every control request made by one
\* of the functions in fns comes after an existence check made by the same
\* function
C16_CheckedFirst(t, fns) ==
  \A j \in 1 .. Len(log[t].ev) :
    (log[t].ev[j].by \in fns
       /\ log[t].ev[j].what \in {"open", "GET", "SET", "DELETE"})
      => \E i \in 1 .. j - 1 :
           log[t].ev[i] = [by |-> log[t].ev[j].by, what |-> "exists"]

\* C16 as stated: GetReparseGUID, GetReparseTag, DeleteReparsePoint and
\* CreateCustomReparsePoint each make the existence check on the path before
\* they open a handle and before they issue a control request
C16_AllFourCheckFirst ==
  \A t \in Threads :
    C16_CheckedFirst(t, {"GetReparseGUID", "GetReparseTag", "DeleteReparsePoint",
                         "CreateCustomReparsePoint"})

\* C16, amended: GetReparseGUID, GetReparseTag and DeleteReparsePoint each
\* make the existence check on the path before they open a handle and before
\* they issue a control request; CreateCustomReparsePoint makes no existence
\* check at all, its first steps after the argument check being the read of
\* the attributes for the directory bit and then the open for writing
C16_QueriesAndDeleteCheckFirst ==
  \A t \in Threads :
    /\ C16_CheckedFirst(t, {"GetReparseGUID", "GetReparseTag", "DeleteReparsePoint"})
    /\ log[t].fn = "CreateCustomReparsePoint" =>
         /\ \A i \in 1 .. Len(log[t].ev) : log[t].ev[i].what # "exists"
         /\ log[t].ev # <<>> =>
              log[t].ev[1] = [by |-> "CreateCustomReparsePoint", what |-> "attrs"]
         /\ Len(log[t].ev) >= 2 =>
              log[t].ev[2] = [by |-> "CreateCustomReparsePoint", what |-> "open"]

\* a deletion that got as far as its DELETE request: its own existence check
\* came first, and each nested query made its own before its open
C16_Witness ==
  \E t \in Threads :
    /\ log[t].fn = "DeleteReparsePoint"
    /\ Requests(t, "DELETE") # <<>>
    /\ Len(Opened(t)) = 3
    /\ log[t].ev[1] = [by |-> "DeleteReparsePoint", what |-> "exists"]
    /\ Cardinality({i \in 1 .. Len(log[t].ev) : log[t].ev[i].what = "exists"}) = 3

(* C18: what the two DELETE requests carry *)

\* the fields of DELETE request d that both attempts must agree on, given the
\* reparse point rp the queries of the call read: the tag read by the tag
\* query, no payload, zero data length and reserved field, and a byte count
\* that is the whole buffer
C18_Common(d, rp) ==
  /\ d.tag = rp.tag
  /\ d.len = 0 /\ d.size = 0
  /\ d.reserved = 0
  /\ d.count = d.cap

\* the two attempts: the first with the GUID field as allocated, all zero;
\* the second with the same buffer but for the GUID field, which holds the
\* GUID read by the GUID query
C18_Attempts(dels, rp) ==
  /\ \A i \in 1 .. Len(dels) : C18_Common(dels[i], rp)
  /\ dels # <<>> => dels[1].guid = GUID_NULL
  /\ Len(dels) = 2 =>
       /\ dels[2].guid = rp.guid
       /\ dels[2] = [dels[1] EXCEPT !.guid = rp.guid, !.ok = dels[2].ok]

\* C18 as stated: the buffer of the DELETE requests is smaller than the
\* GUID-inclusive header size that a creation adds to the payload length,
\* and the two requests are as described
C18_DeleteBufferWithoutGuid ==
  \A t \in Threads :
    log[t].fn = "DeleteReparsePoint" =>
      LET dels == Requests(t, "DELETE")
      IN /\ \A i \in 1 .. Len(dels) :
              dels[i].cap < REPARSE_GUID_DATA_BUFFER_HEADER_SIZE
         /\ C18_Attempts(dels, log[t].fs0[log[t].path].rp)

\* C18, amended: the buffer of the DELETE requests has exactly the
\* GUID-inclusive header size, the size a creation adds to the payload
\* length, and that is the byte count of both requests; both carry the tag
\* read by the tag query, data length 0 and reserved 0; the first has a zero
\* GUID field, and the second differs from the first only in the GUID field,
\* which holds the GUID read by the GUID query
C18_DeleteBufferWithGuid ==
  \A t \in Threads :
    log[t].fn = "DeleteReparsePoint" =>
      LET dels == Requests(t, "DELETE")
      IN /\ \A i \in 1 .. Len(dels) :
              dels[i].cap = REPARSE_GUID_DATA_BUFFER_HEADER_SIZE
         /\ C18_Attempts(dels, log[t].fs0[log[t].path].rp)

\* a deletion whose first request, with a zero GUID, was rejected and whose
\* second request, with the GUID of the reparse point, was accepted
C18_Witness ==
  \E t \in Threads :
    /\ Returned(t, "DeleteReparsePoint")
    /\ Len(Requests(t, "DELETE")) = 2
    /\ Requests(t, "DELETE")[1].guid = GUID_NULL
    /\ Requests(t, "DELETE")[2].guid # GUID_NULL
    /\ Requests(t, "DELETE")[2].ok
    /\ Requests(t, "DELETE")[2].count = REPARSE_GUID_DATA_BUFFER_HEADER_SIZE

(* C19: which handle each request goes out on *)

\* the function that made the k-th CreateFile call of the call of thread t
C19_OpenBy(t, k) ==
  LET at == {i \in 1 .. Len(log[t].ev) : log[t].ev[i].what = "open"}
      i == CHOOSE i \in at : Cardinality({j \in at : j <= i}) = k
  IN log[t].ev[i].by

\* C19: CreateFile is called with GENERIC_WRITE only by DeleteReparsePoint
\* and CreateCustomReparsePoint themselves, and with GENERIC_READ by
\* GetReparseGUID and GetReparseTag, also when DeleteReparsePoint calls
\* them; a GET request goes out on a handle opened for reading, a SET or
\* DELETE request on a handle opened for writing; and an open asks for
\* backup semantics exactly when GetFileAttributes reports the directory bit
\* for the path
C19_HandleKinds ==
  \A t \in Threads :
    /\ Len(log[t].opens)
         = Cardinality({i \in 1 .. Len(log[t].ev) : log[t].ev[i].what = "open"})
    /\ \A k \in 1 .. Len(log[t].opens) :
         /\ log[t].opens[k].access =
              IF C19_OpenBy(t, k) \in {"DeleteReparsePoint", "CreateCustomReparsePoint"}
              THEN "write" ELSE "read"
         /\ C19_OpenBy(t, k) \in {"GetReparseGUID", "GetReparseTag",
                                  "DeleteReparsePoint", "CreateCustomReparsePoint"}
         /\ log[t].opens[k].backup =
              NonZero(BitAnd(GetFileAttributes(log[t].fs0, log[t].path),
                             FILE_ATTRIBUTE_DIRECTORY))
    /\ log[t].fn \in {"GetReparseGUID", "GetReparseTag"} =>
         \A k \in 1 .. Len(log[t].opens) : log[t].opens[k].access = "read"
    /\ \A i \in 1 .. Len(log[t].reqs) :
         log[t].reqs[i].access =
           IF log[t].reqs[i].kind = "GET" THEN "read" ELSE "write"

\* a deletion on the directory P that got to its DELETE request: two opens
\* for reading by the nested queries, one for writing by the deletion, all
\* with backup semantics; the GET requests on read handles, the DELETE
\* request on the write handle
C19_Witness ==
  \E t \in Threads :
    /\ log[t].fn = "DeleteReparsePoint" /\ log[t].path = "P"
    /\ Len(log[t].opens) = 3
    /\ log[t].opens[1].access = "read" /\ log[t].opens[2].access = "read"
    /\ log[t].opens[3].access = "write"
    /\ \A k \in 1 .. 3 : log[t].opens[k].backup /\ log[t].opens[k].ok
    /\ Len(Requests(t, "GET")) = 2
    /\ Requests(t, "DELETE") # <<>> /\ Requests(t, "DELETE")[1].access = "write"

(* C20: one handle at a time, and the order of the steps of a deletion *)

\* the place of a step in the order of a deletion: the existence check, the
\* GUID query, the tag query (with the allocation before it), the read of
\* the attributes for the open, the open for writing, the DELETE requests,
\* the release
C20_Rank(e) ==
  CASE e = [by |-> "DeleteReparsePoint", what |-> "exists"] -> 1
    [] e.by = "GetReparseGUID" \/ e.what = "call GetReparseGUID" -> 2
    [] e.by = "GetReparseTag"
         \/ (e.by = "DeleteReparsePoint"
               /\ e.what \in {"alloc", "call GetReparseTag"}) -> 3
    [] e = [by |-> "DeleteReparsePoint", what |-> "attrs"] -> 4
    [] e = [by |-> "DeleteReparsePoint", what |-> "open"] -> 5
    [] e.what = "DELETE" -> 6
    [] OTHER -> 7

\* the handles the call of thread t holds
C20_Held(t) == res[t].handles - log[t].res0.handles

\* the steps of kind `what` that the nested queries took in the call of t
C20_QuerySteps(t, what) ==
  {i \in 1 .. Len(log[t].ev) :
     /\ log[t].ev[i].by \in {"GetReparseGUID", "GetReparseTag"}
     /\ log[t].ev[i].what = what}

\* C20: a call of a public operation holds at most one handle at any moment.
\* In DeleteReparsePoint the steps come in the order existence check, GUID
\* query, tag query, open for writing, DELETE requests; each nested query has
\* closed its read handle when it returns, so the deletion holds no handle
\* when it opens the path for writing and only the write handle when it
\* issues a DELETE request
C20_OneHandleFixedOrder ==
  \A t \in Threads :
    /\ C20_Held(t) \in {0, 1}
    /\ log[t].fn = "DeleteReparsePoint" =>
         /\ \A i, j \in 1 .. Len(log[t].ev) :
              i < j =>
                /\ C20_Rank(log[t].ev[i]) <= C20_Rank(log[t].ev[j])
                /\ C20_Rank(log[t].ev[i]) \in {1, 4, 5}
                     => C20_Rank(log[t].ev[i]) < C20_Rank(log[t].ev[j])
         /\ log[t].ev # <<>> => C20_Rank(log[t].ev[1]) = 1
         /\ outer[t].pc \in {"d_alloc", "d_tagged", "d_open"} =>
              /\ C20_Held(t) = 0
              /\ Cardinality(C20_QuerySteps(t, "close")) = Len(Opened(t))
         /\ outer[t].pc \in {"d_delete1", "d_delete2"} =>
              /\ C20_Held(t) = 1
              /\ outer[t].hHandle = "write"
              /\ q[t] = IdleQ
              /\ Cardinality(C20_QuerySteps(t, "close")) = Len(Opened(t)) - 1
         /\ Requests(t, "DELETE") # <<>> =>
              /\ Len(Requests(t, "GET")) = 2
              /\ Len(Opened(t)) = 3
              /\ Cardinality(C20_QuerySteps(t, "close")) = 2

\* a deletion about to issue its second DELETE request: both queries ran and
\* closed their handles before the open for writing, and the write handle is
\* the one handle held
C20_Witness ==
  \E t \in Threads :
    /\ outer[t].pc = "d_delete2"
    /\ C20_Held(t) = 1
    /\ Cardinality(C20_QuerySteps(t, "close")) = 2
    /\ [i \in 1 .. Len(log[t].ev) |-> C20_Rank(log[t].ev[i])]
         = <<1, 2, 2, 2, 2, 2, 2, 2, 2, 3, 3, 3, 3, 3, 3, 3, 3, 3, 4, 5, 6>>

====
